---- MODULE Spec2Model ----
(***************************************************************************)
(* A model of the notebooks of the frog-challenge repository: the GBIF     *)
(* paging loop, the partition extraction loop with its re-sign retry, the  *)
(* frog-absence sampler, join_features, the GeoTIFF writes,                *)
(* create_predictor_image, predict_frogs, the unzip cell, the k-fold       *)
(* cross-validation and get_pc.  Each notebook is a sequential program;    *)
(* the variable `notebook` says which one a behaviour runs, and the        *)
(* variables of the others stay idle.                                      *)
(***************************************************************************)
EXTENDS Integers, Sequences, FiniteSets, TLC

VARIABLES
    notebook,     \* which notebook this behaviour runs
    \* ---- GBIF paging loop (get_frogs / top-level paging cell) ----
    total,        \* response['count']: the records the server holds
    offset,       \* the loop's offset
    frogs,        \* the accumulated frame, as the sequence of record numbers
    inflight,     \* requests sent whose response has not been consumed
    requests,     \* number of requests issued so far
    pgPc,         \* "idle", "loop", "done"
    \* ---- GBIF partition extraction loop ----
    npartitions,  \* df.npartitions
    part,         \* the loop variable i
    dfGen,        \* which signing the frame df was built from
    expired,      \* whether the signed URL of df has expired
    ptFrogs,      \* the accumulated frame, as the partitions appended
    ptLog,        \* the compute attempts and re-signs made, in order
    csv,          \* richmond_frogs.csv: "untouched" or the rows saved
    ptPc,         \* "idle", "loop", "try", "resign", "retry", "save",
                  \* "saved", "raised"
    \* ---- frog-absence sampler ----
    bbox,         \* <<min_lon, min_lat, max_lon, max_lat>>
    grid,         \* <<grid[0], grid[1]>>
    geo_frogs,    \* the frog occurrences, as points <<lon, lat>>
    gi,           \* the loop variable i
    gj,           \* the loop variable j
    bottom_corner,\* <<x, y>>
    examined,     \* the bottom corners of the grid units built so far
    non_frogs,    \* the frame of absence points
    all_data,     \* the final dataset
    abPc,         \* "idle", "grid", "sample", "concat", "done", "raised"
    \* ---- join_features ----
    predictor_image, \* [x, y, bands]: the coordinates and band labels
    model_data,   \* the occurrences: rows [key, decimalLongitude, decimalLatitude]
    jj,           \* rows of model_data already looked up
    data_per_point, \* the frame of looked-up rows [values, key]
    joined,       \* the frame join_features returns
    jfPc,         \* "idle", "loop", "merge", "done", "raised"
    \* ---- GeoTIFF writes ----
    cog_assets,   \* the asset keys of the JRC item, in table order
    data_bands,   \* the band labels of the array written, in array order
    tiff,         \* the file: band index -> [data, description]
    tfI,          \* the number of the next write statement / the loop variable i
    tfPc,         \* "idle", "whole", "bands", "closed"
    \* ---- create_predictor_image ----
    all_datasets, \* the list of arrays [band, values, x, y, dims]
    cpI,          \* the loop variable i
    combined_values, \* the band rasters combined so far
    combined_bands,  \* the band labels combined so far
    x_coords,     \* data.x of the first array
    y_coords,     \* data.y of the first array
    dims,         \* data.dims of the first array
    cpImage,      \* the array returned: [band, values, x, y, dims]
    cpPc,         \* "idle", "loop", "build", "done", "raised"
    \* ---- predict_frogs ----
    pfImage,      \* the caller's predictor_image: [x, y, values]
    stacked,      \* the local predictor_image once stacked: [z, rows]
    probabilities,\* what predict_proba returned, then its column 1
    resultant_image, \* the array returned: [x, y, values], dimensions (x, y)
    pfPc,         \* "idle", "stack", "predict", "column", "unstack", "done",
                  \* "raised"
    \* ---- the unzip cell of dataset_summary ----
    zipPresent,   \* whether GBIF_training_data.zip is in data_path
    dirExists,    \* whether training_data/ exists
    dirFiles,     \* the files in training_data/
    uzRuns,       \* how many times the cell has been run
    uzNext,       \* the number of the archive member extractall is at
    uzLog,        \* what the runs did: [run, op, files]
    uzPc,         \* "idle", "ready", "mkdir", "open", "extract", "completed",
                  \* "raised"
    \* ---- the cross-validation cell ----
    y,            \* the response: occurrenceStatus of every row, in row order
    test_folds,   \* the fold each row is tested in, as split drew it
    kfI,          \* the loop variable i
    train_index,  \* the training rows of the current pass (positions from 0)
    test_index,   \* the test rows of the current pass (positions from 0)
    results,      \* [F1, Accuracy]: the lists of scores
    kfTests,      \* the test_index of every pass made, in order
    kfPc,         \* "idle", "split", "loop", "done", "raised"
    \* ---- get_pc and the Sentinel-2 median cells ----
    product,      \* the collection asked for
    na_val,       \* [given, val]: the argument na_val (None when not given)
    gpScenes,     \* what the catalog holds: time -> pixel -> value
    gpData,       \* the local data: time -> pixel -> value
    median,       \* the median composite: pixel -> value
    gpSeries,     \* the time series returned in place of a composite
    gpPc          \* "idle", "fetch", "mask", "median", "done"

pagingVars == <<total, offset, frogs, pgPc>>

remoteVars == <<inflight, requests>>

partitionVars == <<npartitions, part, dfGen, expired, ptFrogs, ptLog, csv, ptPc>>

absenceVars == <<bbox, grid, geo_frogs, gi, gj, bottom_corner, examined,
                 non_frogs, all_data, abPc>>

joinVars == <<predictor_image, model_data, jj, data_per_point, joined, jfPc>>

tiffVars == <<cog_assets, data_bands, tiff, tfI, tfPc>>

predictorVars == <<all_datasets, cpI, combined_values, combined_bands, x_coords,
                   y_coords, dims, cpImage, cpPc>>

predictVars == <<pfImage, stacked, probabilities, resultant_image, pfPc>>

unzipVars == <<zipPresent, dirExists, dirFiles, uzRuns, uzNext, uzLog, uzPc>>

kfoldVars == <<y, test_folds, kfI, train_index, test_index, results, kfTests, kfPc>>

mosaicVars == <<product, na_val, gpScenes, gpData, median, gpSeries, gpPc>>

\* the model-building helpers of the modelling notebooks
modelVars == <<predictorVars, predictVars, unzipVars, kfoldVars, mosaicVars>>

\* what the actions of one notebook leave alone
otherVars == <<absenceVars, joinVars, tiffVars, modelVars>>

absenceOthers == <<pagingVars, remoteVars, partitionVars, joinVars, tiffVars, modelVars>>

joinOthers == <<pagingVars, remoteVars, partitionVars, absenceVars, tiffVars, modelVars>>

tiffOthers == <<pagingVars, remoteVars, partitionVars, absenceVars, joinVars, modelVars>>

\* the variables of the data-gathering notebooks
gatherVars == <<pagingVars, remoteVars, partitionVars, absenceVars, joinVars, tiffVars>>

predictorOthers == <<gatherVars, predictVars, unzipVars, kfoldVars, mosaicVars>>

predictOthers == <<gatherVars, predictorVars, unzipVars, kfoldVars, mosaicVars>>

unzipOthers == <<gatherVars, predictorVars, predictVars, kfoldVars, mosaicVars>>

kfoldOthers == <<gatherVars, predictorVars, predictVars, unzipVars, mosaicVars>>

mosaicOthers == <<gatherVars, predictorVars, predictVars, unzipVars, kfoldVars>>

vars == <<notebook, pagingVars, remoteVars, partitionVars, otherVars>>

----------------------------------------------------------------------------
(* Bounds of the model *)

\* the largest record count the server is given
MaxRecords == 601

\* cap on the requests one run may issue (the paging loop needs
\* ceil(MaxRecords / limit) and the partition loop 2 * MaxPartitions; the cap
\* only stops a loop that would never end)
MaxRequests == 8

\* the largest number of partitions of the GBIF frame
MaxPartitions == 3

\* the largest number of frog occurrences given to the absence sampler
MaxFrogs == 2

\* the largest number of occurrences given to join_features
MaxRows == 2

\* the largest number of bands of a predictor image
MaxBands == 2

\* the largest number of assets of the JRC item
MaxAssets == 3

\* the largest number of datasets given to create_predictor_image
MaxDatasets == 3

\* how many times the unzip cell is run
MaxRuns == 3

\* the largest number of rows of one class given to the cross-validation
MaxPerClass == 11

\* the largest number of scenes of a product over the bounding box
MaxScenes == 4

----------------------------------------------------------------------------
(* GBIF occurrence search, paged                                           *)

\* limit = 300
limit == 300

Min(a, b) == IF a < b THEN a ELSE b

\* records first .. last-1 as a sequence of record numbers
Records(first, last) ==
    IF last <= first THEN <<>> ELSE [k \in 1..(last - first) |-> first + k - 1]

\* The server: a request (offset, limit) against N records is answered with
\* records offset .. offset+limit-1, the count N, and endOfRecords exactly on
\* the last page.
Respond(off, lim, N) ==
    [ count        |-> N,
      results      |-> Records(off, Min(off + lim, N)),
      endOfRecords |-> off + lim >= N ]

NextOffset_stuck(off) == off

NextOffset_skip(off) == off + limit + 1

NextOffset_double(off) == off + 2 * limit

\* offset += limit
NextOffset(off) == off + limit

Blocked_async(pending) == FALSE

\* requests.get(...).json() is a blocking call: while a request is
\* outstanding the notebook executes nothing else
Blocked(pending) == pending # <<>>

\* parameters['offset'] = offset; requests.get(...)
PagingRequest ==
    /\ notebook = "paging"
    /\ pgPc = "loop"
    /\ ~Blocked(inflight)
    /\ requests < MaxRequests
    /\ inflight' = Append(inflight, offset)
    /\ requests' = requests + 1
    /\ UNCHANGED <<notebook, total, offset, frogs, pgPc, partitionVars, otherVars>>

\* response = ....json(); frogs = frogs.append(...); break or offset += limit
PagingResponse ==
    /\ notebook = "paging"
    /\ inflight # <<>>
    /\ LET response == Respond(Head(inflight), limit, total)
       IN  /\ frogs' = frogs \o response.results
           /\ IF response.endOfRecords
                 THEN /\ pgPc' = "done"
                      /\ offset' = offset
                 ELSE /\ pgPc' = pgPc
                      /\ offset' = NextOffset(offset)
    /\ inflight' = Tail(inflight)
    /\ UNCHANGED <<notebook, total, requests, partitionVars, otherVars>>

PagingIdle ==
    /\ total = 0
    /\ offset = 0
    /\ frogs = <<>>
    /\ inflight = <<>>
    /\ requests = 0
    /\ pgPc = "idle"

\* frogs = pd.DataFrame(); offset = 0
PagingStart ==
    /\ total \in 1..MaxRecords
    /\ offset = 0
    /\ frogs = <<>>
    /\ inflight = <<>>
    /\ requests = 0
    /\ pgPc = "loop"

\* The documented rule: "add 300 to the offset and repeat until the offset is
\* greater than the count of all records"; the number of requests it makes.
RECURSIVE OffsetRuleRequests(_, _)
OffsetRuleRequests(off, N) ==
    IF off + limit > N THEN 1 ELSE 1 + OffsetRuleRequests(off + limit, N)

----------------------------------------------------------------------------
(* GBIF partition extraction with re-sign on failure                       *)

PartitionIdle ==
    /\ npartitions = 0
    /\ part = 0
    /\ dfGen = 0
    /\ expired = FALSE
    /\ ptFrogs = <<>>
    /\ ptLog = <<>>
    /\ csv = "untouched"
    /\ ptPc = "idle"

\* gbif = planetary_computer.sign(...); df = dd.read_parquet(...);
\* frogs = pd.DataFrame()
PartitionStart ==
    /\ npartitions \in 1..MaxPartitions
    /\ part = 0
    /\ dfGen = 0
    /\ expired = FALSE
    /\ ptFrogs = <<>>
    /\ ptLog = <<>>
    /\ csv = "untouched"
    /\ ptPc = "loop"
    /\ inflight = <<>>
    /\ requests = 0

ptRunning == ptPc \in {"loop", "try", "resign", "retry"}

\* the signed URL of the frame in use expires as the extraction goes on
Expire ==
    /\ notebook = "partition"
    /\ ptRunning
    /\ ~expired
    /\ expired' = TRUE
    /\ UNCHANGED <<notebook, pagingVars, otherVars, remoteVars, npartitions, part, dfGen,
                   ptFrogs, ptLog, csv, ptPc>>

\* for i in range(df.npartitions): if np.random.random() < 0.1: (not taken)
PartSkip ==
    /\ notebook = "partition"
    /\ ptPc = "loop"
    /\ part < npartitions
    /\ part' = part + 1
    /\ UNCHANGED <<notebook, pagingVars, otherVars, remoteVars, npartitions, dfGen, expired,
                   ptFrogs, ptLog, csv, ptPc>>

\* if np.random.random() < 0.1: (taken) ... try:
PartTake ==
    /\ notebook = "partition"
    /\ ptPc = "loop"
    /\ part < npartitions
    /\ ptPc' = "try"
    /\ UNCHANGED <<notebook, pagingVars, otherVars, remoteVars, npartitions, part, dfGen,
                   expired, ptFrogs, ptLog, csv>>

\* the range is exhausted: on to "# Save to file"
PartLoopEnd ==
    /\ notebook = "partition"
    /\ ptPc = "loop"
    /\ part = npartitions
    /\ ptPc' = "save"
    /\ UNCHANGED <<notebook, pagingVars, otherVars, remoteVars, npartitions, part, dfGen,
                   expired, ptFrogs, ptLog, csv>>

\* df.get_partition(i).compute() is issued, in the try body or in the handler
ComputeRequest ==
    /\ notebook = "partition"
    /\ ptPc \in {"try", "retry"}
    /\ ~Blocked(inflight)
    /\ requests < MaxRequests
    /\ inflight' = Append(inflight, [part |-> part, gen |-> dfGen])
    /\ requests' = requests + 1
    /\ UNCHANGED <<notebook, pagingVars, partitionVars, otherVars>>

ResignedGen_stale(gen) == gen

\* df = resign_planetary_computer(): the frame is rebuilt from a new signing
ResignedGen(gen) == gen + 1

AfterFailure_again(pc) == "resign"

AfterFailure_swallow(pc) == IF pc = "try" THEN "resign" ELSE "loop"

\* where control goes when compute raises: the except clause handles the
\* try body's exception; one raised inside the handler propagates
AfterFailure(pc) == IF pc = "try" THEN "resign" ELSE "raised"

\* compute() returns the partition's rows and frogs.append adds them
ComputeOk ==
    /\ notebook = "partition"
    /\ inflight # <<>>
    /\ ptPc \in {"try", "retry"}
    /\ ~expired
    /\ LET req == Head(inflight)
       IN  /\ ptFrogs' = Append(ptFrogs, req.part)
           /\ ptLog' = Append(ptLog, [op |-> ptPc, part |-> req.part,
                                      gen |-> req.gen, ok |-> TRUE,
                                      why |-> "none"])
    /\ inflight' = Tail(inflight)
    /\ part' = part + 1
    /\ ptPc' = "loop"
    /\ UNCHANGED <<notebook, pagingVars, otherVars, requests, npartitions, dfGen, expired, csv>>

\* compute() raises: always when the signed URL has expired, possibly for
\* another reason (the except clause is bare); nothing is appended
ComputeFail ==
    /\ notebook = "partition"
    /\ inflight # <<>>
    /\ ptPc \in {"try", "retry"}
    /\ LET req == Head(inflight)
       IN  ptLog' = Append(ptLog, [op |-> ptPc, part |-> req.part,
                                   gen |-> req.gen, ok |-> FALSE,
                                   why |-> IF expired THEN "expired"
                                                      ELSE "other"])
    /\ inflight' = Tail(inflight)
    /\ ptPc' = AfterFailure(ptPc)
    /\ UNCHANGED <<notebook, pagingVars, otherVars, requests, npartitions, part, dfGen,
                   expired, ptFrogs, csv>>

\* df = resign_planetary_computer() returns a frame over a fresh signing
ResignOk ==
    /\ notebook = "partition"
    /\ ptPc = "resign"
    /\ dfGen' = ResignedGen(dfGen)
    /\ expired' = FALSE
    /\ ptLog' = Append(ptLog, [op |-> "resign", part |-> part,
                               gen |-> dfGen', ok |-> TRUE, why |-> "none"])
    /\ ptPc' = "retry"
    /\ UNCHANGED <<notebook, pagingVars, otherVars, remoteVars, npartitions, part, ptFrogs, csv>>

\* resign_planetary_computer() itself raises, inside the handler
ResignFail ==
    /\ notebook = "partition"
    /\ ptPc = "resign"
    /\ ptLog' = Append(ptLog, [op |-> "resign", part |-> part,
                               gen |-> dfGen, ok |-> FALSE, why |-> "other"])
    /\ ptPc' = "raised"
    /\ UNCHANGED <<notebook, pagingVars, otherVars, remoteVars, npartitions, part, dfGen,
                   expired, ptFrogs, csv>>

\* frogs.reset_index(...).assign(...).rename(...).drop('order', 1).to_csv(...)
\* (the frame with nothing appended has no column 'order': drop raises)
Save ==
    /\ notebook = "partition"
    /\ ptPc = "save"
    /\ IF ptFrogs = <<>>
          THEN /\ ptPc' = "raised"
               /\ csv' = csv
          ELSE /\ ptPc' = "saved"
               /\ csv' = ptFrogs
    /\ UNCHANGED <<notebook, pagingVars, otherVars, remoteVars, npartitions, part, dfGen,
                   expired, ptFrogs, ptLog>>

----------------------------------------------------------------------------
(* Frog absence: the sliding window over the bounding box                  *)
(* Coordinates are integers, in a unit in which step/2 is whole.           *)

\* the bounding boxes and grids the sampler is run on: a square box with a
\* square grid (as the notebook's 50 x 50 over Richmond) and an oblong one
AbsenceConfigs ==
    { [bbox |-> <<0, 0, 4, 4>>, grid |-> <<2, 2>>],
      [bbox |-> <<0, 0, 4, 6>>, grid |-> <<3, 2>>] }

\* where the frog occurrences may lie: inside a grid unit, on the edge of
\* two, on the corner of four, on the corner of the box
FrogSites == { <<1, 1>>, <<2, 1>>, <<3, 1>>, <<1, 3>>, <<2, 2>>, <<4, 4>> }

\* step = np.array([max_lat - min_lat, max_lon - min_lon])/grid
step == << (bbox[4] - bbox[2]) \div grid[1], (bbox[3] - bbox[1]) \div grid[2] >>

\* bbox_bottom_corner = np.array([min_lon, min_lat])
bbox_bottom_corner == << bbox[1], bbox[2] >>

\* geo_frogs.intersects(grid_unit), grid_unit the rectangle with corners
\* bottom_corner, + step*up, + step, + step*right (its boundary included)
Intersects(p, corner) ==
    /\ corner[1] <= p[1] /\ p[1] <= corner[1] + step[1]
    /\ corner[2] <= p[2] /\ p[2] <= corner[2] + step[2]

\* num_frogs = sum(geo_frogs.intersects(grid_unit))
NumFrogs(corner) ==
    Cardinality({k \in 1..Len(geo_frogs) : Intersects(geo_frogs[k], corner)})

IsAbsent_lenient(num_frogs) == num_frogs <= 1

\* if num_frogs == 0:
IsAbsent(num_frogs) == num_frogs = 0

\* midpoint = bottom_corner + step/2, saved as
\* {'decimalLatitude': midpoint[1], 'decimalLongitude': midpoint[0]}
MidpointRow(corner) ==
    [ decimalLatitude  |-> corner[2] + step[2] \div 2,
      decimalLongitude |-> corner[1] + step[1] \div 2 ]

\* bottom_corner = bbox_bottom_corner + step*np.array([i, j])
NextCorner(i, j) ==
    << bbox_bottom_corner[1] + step[1] * i, bbox_bottom_corner[2] + step[2] * j >>

AbsenceIdle ==
    /\ bbox = <<0, 0, 0, 0>>
    /\ grid = <<0, 0>>
    /\ geo_frogs = <<>>
    /\ gi = 0
    /\ gj = 0
    /\ bottom_corner = <<0, 0>>
    /\ examined = <<>>
    /\ non_frogs = <<>>
    /\ all_data = <<>>
    /\ abPc = "idle"

\* non_frogs = pd.DataFrame(); grid = ...; bottom_corner = bbox_bottom_corner
AbsenceStart ==
    /\ \E c \in AbsenceConfigs : bbox = c.bbox /\ grid = c.grid
    /\ \E n \in 1..MaxFrogs : geo_frogs \in [1..n -> FrogSites]
    /\ gi = 0
    /\ gj = 0
    /\ bottom_corner = bbox_bottom_corner
    /\ examined = <<>>
    /\ non_frogs = <<>>
    /\ all_data = <<>>
    /\ abPc = "grid"

\* one pass of the body of "for i in range(grid[0]): for j in range(grid[1]):"
GridUnit ==
    /\ notebook = "absence"
    /\ abPc = "grid"
    /\ examined' = Append(examined, bottom_corner)
    /\ non_frogs' = IF IsAbsent(NumFrogs(bottom_corner))
                       THEN Append(non_frogs, MidpointRow(bottom_corner))
                       ELSE non_frogs
    /\ bottom_corner' = NextCorner(gi, gj)
    /\ IF gj + 1 < grid[2]
          THEN gj' = gj + 1 /\ gi' = gi /\ abPc' = abPc
          ELSE IF gi + 1 < grid[1]
                  THEN gj' = 0 /\ gi' = gi + 1 /\ abPc' = abPc
                  ELSE gj' = gj /\ gi' = gi /\ abPc' = "sample"
    /\ UNCHANGED <<notebook, absenceOthers,
                   bbox, grid, geo_frogs, all_data>>

SampleSize_all(nFrogs, nNonFrogs) == nNonFrogs

\* .sample(len(frogs))
SampleSize(nFrogs, nNonFrogs) == nFrogs

\* the ways of drawing n rows out of m without replacement
Draws(n, m) ==
    { f \in [1..n -> 1..m] : \A a, b \in 1..n : a # b => f[a] # f[b] }

\* non_frogs.sample(len(frogs)).assign(occurrenceStatus = '0')[[...]];
\* sample raises when asked for more rows than the frame has
Sample ==
    /\ notebook = "absence"
    /\ abPc = "sample"
    /\ LET n == SampleSize(Len(geo_frogs), Len(non_frogs))
       IN  IF n > Len(non_frogs)
              THEN /\ abPc' = "raised"
                   /\ non_frogs' = non_frogs
              ELSE /\ abPc' = "concat"
                   /\ \E f \in Draws(n, Len(non_frogs)) :
                         non_frogs' =
                            [k \in 1..n |->
                               [ decimalLatitude  |-> non_frogs[f[k]].decimalLatitude,
                                 decimalLongitude |-> non_frogs[f[k]].decimalLongitude,
                                 occurrenceStatus |-> "0" ]]
    /\ UNCHANGED <<notebook, absenceOthers,
                   bbox, grid, geo_frogs, gi, gj, bottom_corner, examined, all_data>>

\* frogs[["decimalLatitude", "decimalLongitude"]].assign(occurrenceStatus = '1')
FrogRows ==
    [k \in 1..Len(geo_frogs) |->
        [ decimalLatitude  |-> geo_frogs[k][2],
          decimalLongitude |-> geo_frogs[k][1],
          occurrenceStatus |-> "1" ]]

\* all_data = frogs.append(non_frogs).reset_index(drop=True)
Concat ==
    /\ notebook = "absence"
    /\ abPc = "concat"
    /\ all_data' = FrogRows \o non_frogs
    /\ abPc' = "done"
    /\ UNCHANGED <<notebook, absenceOthers,
                   bbox, grid, geo_frogs, gi, gj, bottom_corner, examined, non_frogs>>

----------------------------------------------------------------------------
(* join_features: occurrences onto the nearest predictor pixel             *)

\* the coordinate axes of the predictor images (x ascending, y descending,
\* as rasters are laid out)
ImageAxes ==
    { [x |-> <<0, 2, 4>>, y |-> <<4, 2, 0>>],
      [x |-> <<0, 3>>,    y |-> <<3, 0>>] }

\* where the occurrences may lie: on a pixel centre, between two, closer to one
OccurrenceSites == { <<0, 0>>, <<1, 1>>, <<1, 3>>, <<2, 2>>, <<3, 1>>, <<4, 4>> }

BandLabels == <<"b1", "b2", "b3", "b4">>

\* the value of band b at pixel (row yi, column xi): a different number in
\* every pixel of every band
PixelValue(b, yi, xi) == 100 * b + 10 * yi + xi

Abs(a) == IF a < 0 THEN -a ELSE a

\* .sel(..., method="nearest") along one axis: the index of the coordinate
\* closest to t; of two equally close, the larger coordinate
NearestIndex(coords, t) ==
    CHOOSE k \in 1..Len(coords) :
        \A m \in 1..Len(coords) :
            \/ Abs(coords[k] - t) < Abs(coords[m] - t)
            \/ Abs(coords[k] - t) = Abs(coords[m] - t) /\ coords[k] >= coords[m]

\* nearest_point = predictor_image.sel(x=lon, y=lat, method="nearest");
\* nearest_point.values, one value per band
NearestValues(lon, lat) ==
    LET xi == NearestIndex(predictor_image.x, lon)
        yi == NearestIndex(predictor_image.y, lat)
    IN  [b \in 1..Len(predictor_image.bands) |-> PixelValue(b, yi, xi)]

\* np.concatenate((np.squeeze(values), np.array([key]))): squeeze turns the
\* values of a one-band image into a zero-dimensional array, which
\* concatenate refuses
ConcatenateRaises(values) == Len(values) = 1

JoinIdle ==
    /\ predictor_image = [x |-> <<>>, y |-> <<>>, bands |-> <<>>]
    /\ model_data = <<>>
    /\ jj = 0
    /\ data_per_point = <<>>
    /\ joined = <<>>
    /\ jfPc = "idle"

\* frog_data = pd.read_csv(...).reset_index().rename(columns={'index':'key'});
\* data_per_point = pd.DataFrame()
JoinStart ==
    /\ \E a \in ImageAxes : \E nb \in 1..MaxBands :
          predictor_image = [x |-> a.x, y |-> a.y, bands |-> SubSeq(BandLabels, 1, nb)]
    /\ \E n \in 0..MaxRows : \E sites \in [1..n -> OccurrenceSites] :
          model_data = [k \in 1..n |->
                           [ key |-> k - 1,
                             decimalLongitude |-> sites[k][1],
                             decimalLatitude  |-> sites[k][2] ]]
    /\ jj = 0
    /\ data_per_point = <<>>
    /\ joined = <<>>
    /\ jfPc = "loop"

\* one pass of "for j, (lon, lat, key) in enumerate(zip(...))"
JoinPoint ==
    /\ notebook = "join"
    /\ jfPc = "loop"
    /\ jj < Len(model_data)
    /\ LET row == model_data[jj + 1]
           values == NearestValues(row.decimalLongitude, row.decimalLatitude)
       IN  IF ConcatenateRaises(values)
              THEN /\ jfPc' = "raised"
                   /\ UNCHANGED <<jj, data_per_point>>
              ELSE /\ data_per_point' =
                         Append(data_per_point, [values |-> values, key |-> row.key])
                   /\ jj' = jj + 1
                   /\ jfPc' = jfPc
    /\ UNCHANGED <<notebook, joinOthers, predictor_image, model_data, joined>>

\* the loop over model_data is exhausted
JoinLoopEnd ==
    /\ notebook = "join"
    /\ jfPc = "loop"
    /\ jj = Len(model_data)
    /\ jfPc' = "merge"
    /\ UNCHANGED <<notebook, joinOthers, predictor_image, model_data, jj,
                   data_per_point, joined>>

\* the rows of an inner merge on 'key', in the order of the left frame
MergeRows(left, right) ==
    LET matches(l) ==
            SelectSeq(right, LAMBDA r : r.key = l.key)
        F[k \in 0..Len(left)] ==
            IF k = 0 THEN <<>>
            ELSE F[k - 1] \o
                 [m \in 1..Len(matches(left[k])) |->
                     [ key |-> left[k].key,
                       decimalLongitude |-> left[k].decimalLongitude,
                       decimalLatitude  |-> left[k].decimalLatitude,
                       values |-> matches(left[k])[m].values ]]
    IN  F[Len(left)]

\* model_data = model_data.merge(data_per_point, on = ['key'], how = 'inner');
\* a data_per_point nothing was appended to has no column 'key': merge raises
Merge ==
    /\ notebook = "join"
    /\ jfPc = "merge"
    /\ IF data_per_point = <<>>
          THEN /\ jfPc' = "raised"
               /\ joined' = joined
          ELSE /\ jfPc' = "done"
               /\ joined' = MergeRows(model_data, data_per_point)
    /\ UNCHANGED <<notebook, joinOthers, predictor_image, model_data, jj, data_per_point>>

----------------------------------------------------------------------------
(* GeoTIFF writes of the Sentinel-2, DEM and JRC notebooks                 *)

\* the COG assets of the JRC Global Surface Water item
AssetKeys == {"change", "extent", "occurrence", "recurrence", "seasonality", "transitions"}

\* the sequences of n different elements of S
Arrangements(S, n) ==
    { f \in [1..n -> S] : \A a, b \in 1..n : a # b => f[a] # f[b] }

EmptyBand == [data |-> "none", description |-> "none"]

Sentinel2Writes_bgr ==
    << [src |-> "blue", bidx |-> 1], [src |-> "green", bidx |-> 2],
       [src |-> "red", bidx |-> 3],  [src |-> "nir", bidx |-> 4] >>

\* dst.write(median.sel(band="red"),1) ... dst.write(median.sel(band="nir"),4)
Sentinel2Writes ==
    << [src |-> "red", bidx |-> 1],  [src |-> "green", bidx |-> 2],
       [src |-> "blue", bidx |-> 3], [src |-> "nir", bidx |-> 4] >>

\* dst.write(Clipped_Data.elevation,1); dst.write(Clipped_Data.slope,2)
DemWrites ==
    << [src |-> "elevation", bidx |-> 1], [src |-> "slope", bidx |-> 2] >>

Writes == IF notebook = "sentinel2" THEN Sentinel2Writes ELSE DemWrites

TiffIdle ==
    /\ cog_assets = <<>>
    /\ data_bands = <<>>
    /\ tiff = <<>>
    /\ tfI = 0
    /\ tfPc = "idle"

\* rasterio.open(filename, 'w', ..., count=4 | count=2 | count=len(cog_assets))
Sentinel2Start ==
    /\ cog_assets = <<>>
    /\ data_bands = <<"red", "green", "blue", "nir">>
    /\ tiff = [b \in 1..4 |-> EmptyBand]
    /\ tfI = 1
    /\ tfPc = "bands"

DemStart ==
    /\ cog_assets = <<>>
    /\ data_bands = <<"elevation", "slope">>
    /\ tiff = [b \in 1..2 |-> EmptyBand]
    /\ tfI = 1
    /\ tfPc = "bands"

\* cog_assets = list(assets['STAC Key']); data = stackstac.stack(item, ...)[0]:
\* the same assets, in the order the array holds them
JrcStart ==
    /\ \E n \in 1..MaxAssets :
          /\ cog_assets \in Arrangements(AssetKeys, n)
          /\ data_bands \in Arrangements({cog_assets[k] : k \in 1..n}, n)
    /\ tiff = [b \in 1..Len(cog_assets) |-> EmptyBand]
    /\ tfI = 0
    /\ tfPc = "whole"

\* dst.write(<band src of the array>, bidx)
WriteBand ==
    /\ notebook \in {"sentinel2", "dem"}
    /\ tfPc = "bands"
    /\ LET w == Writes[tfI]
       IN  tiff' = [tiff EXCEPT ![w.bidx] = [data |-> w.src,
                                             description |-> @.description]]
    /\ tfI' = tfI + 1
    /\ tfPc' = IF tfI = Len(Writes) THEN "closed" ELSE tfPc
    /\ UNCHANGED <<notebook, tiffOthers, cog_assets, data_bands>>

\* dst.write(data): the whole array, band k of the array into band k
JrcWriteAll ==
    /\ notebook = "jrc"
    /\ tfPc = "whole"
    /\ tiff' = [b \in 1..Len(tiff) |-> [data |-> data_bands[b],
                                        description |-> tiff[b].description]]
    /\ tfPc' = "bands"
    /\ tfI' = tfI
    /\ UNCHANGED <<notebook, tiffOthers, cog_assets, data_bands>>

\* for i, band in enumerate(cog_assets): ... i+1
JrcBandIndex(i) == i + 1

\* img = data.sel(band=band); dst.write_band(i+1, img);
\* dst.set_band_description(i+1, band)
JrcWriteBand ==
    /\ notebook = "jrc"
    /\ tfPc = "bands"
    /\ LET band == cog_assets[tfI + 1]
       IN  tiff' = [tiff EXCEPT ![JrcBandIndex(tfI)] = [data |-> band,
                                                        description |-> band]]
    /\ tfI' = tfI + 1
    /\ tfPc' = IF tfI + 1 = Len(cog_assets) THEN "closed" ELSE tfPc
    /\ UNCHANGED <<notebook, tiffOthers, cog_assets, data_bands>>

----------------------------------------------------------------------------
(* create_predictor_image: the datasets combined into one multi-band image  *)

\* the grids the datasets come on: two of the same shape with different
\* coordinates, and one of another shape
Grids ==
    { [x |-> <<0, 1>>, y |-> <<1, 0>>],
      [x |-> <<5, 6>>, y |-> <<6, 5>>],
      [x |-> <<0, 1, 2>>, y |-> <<1, 0>>] }

\* the value of band b of product p at pixel (row yi, column xi): a
\* different number in every pixel of every band of every product
ProductValue(p, b, yi, xi) == 1000 * p + 100 * b + 10 * yi + xi

\* the array get_pc returns for product p (the p-th entry of the table
\* products) with k bands on grid g, dimensions (band, y, x)
ProductArray(p, k, g) ==
    [ band   |-> [b \in 1..k |-> <<p, b>>],
      values |-> [b \in 1..k |->
                     [yi \in 1..Len(g.y) |->
                         [xi \in 1..Len(g.x) |-> ProductValue(p, b, yi, xi)]]],
      x      |-> g.x,
      y      |-> g.y,
      dims   |-> <<"band", "y", "x">> ]

\* the shape of a sequence of band rasters beyond axis 0
RasterShape(values) == << Len(values[1]), Len(values[1][1]) >>

\* np.concatenate(..., axis=0) raises unless the arrays agree on every
\* other axis
ShapeMismatch(a, b) == RasterShape(a) # RasterShape(b)

ConcatenateAxis0_prepend(a, b) == b \o a

\* np.concatenate((a, b), axis=0)
ConcatenateAxis0(a, b) == a \o b

NoImage == [band |-> <<>>, values |-> <<>>, x |-> <<>>, y |-> <<>>, dims |-> <<>>]

PredictorIdle ==
    /\ all_datasets = <<>>
    /\ cpI = 0
    /\ combined_values = <<>>
    /\ combined_bands = <<>>
    /\ x_coords = <<>>
    /\ y_coords = <<>>
    /\ dims = <<>>
    /\ cpImage = NoImage
    /\ cpPc = "idle"

\* create_predictor_image(all_datasets) is called
PredictorStart ==
    /\ \E n \in 0..MaxDatasets :
       \E ks \in [1..n -> 1..MaxBands] :
       \E gs \in [1..n -> Grids] :
          all_datasets = [i \in 1..n |-> ProductArray(i, ks[i], gs[i])]
    /\ cpI = 0
    /\ combined_values = <<>>
    /\ combined_bands = <<>>
    /\ x_coords = <<>>
    /\ y_coords = <<>>
    /\ dims = <<>>
    /\ cpImage = NoImage
    /\ cpPc = "loop"

\* one pass of "for i, data in enumerate(all_datasets)"
CombineDataset ==
    /\ notebook = "predictor"
    /\ cpPc = "loop"
    /\ cpI < Len(all_datasets)
    /\ LET data == all_datasets[cpI + 1]
       IN  IF cpI = 0
              THEN /\ combined_values' = data.values
                   /\ combined_bands' = data.band
                   /\ x_coords' = data.x
                   /\ y_coords' = data.y
                   /\ dims' = data.dims
                   /\ cpI' = cpI + 1
                   /\ cpPc' = cpPc
              ELSE IF ShapeMismatch(combined_values, data.values)
                      THEN /\ cpPc' = "raised"
                           /\ UNCHANGED <<combined_values, combined_bands, cpI>>
                           /\ UNCHANGED <<x_coords, y_coords, dims>>
                      ELSE /\ combined_values' =
                                 ConcatenateAxis0(combined_values, data.values)
                           /\ combined_bands' =
                                 ConcatenateAxis0(combined_bands, data.band)
                           /\ cpI' = cpI + 1
                           /\ cpPc' = cpPc
                           /\ UNCHANGED <<x_coords, y_coords, dims>>
    /\ UNCHANGED <<notebook, predictorOthers, all_datasets, cpImage>>

\* the list is exhausted
CombineLoopEnd ==
    /\ notebook = "predictor"
    /\ cpPc = "loop"
    /\ cpI = Len(all_datasets)
    /\ cpPc' = "build"
    /\ UNCHANGED <<notebook, predictorOthers, all_datasets, cpI, combined_values,
                   combined_bands, x_coords, y_coords, dims, cpImage>>

\* predictor_image = xr.DataArray(data=combined_values, dims=dims, coords=...);
\* after a loop of no passes combined_values is not bound and the call raises
BuildImage ==
    /\ notebook = "predictor"
    /\ cpPc = "build"
    /\ IF all_datasets = <<>>
          THEN /\ cpPc' = "raised"
               /\ cpImage' = cpImage
          ELSE /\ cpPc' = "done"
               /\ cpImage' = [ band   |-> combined_bands,
                               values |-> combined_values,
                               x      |-> x_coords,
                               y      |-> y_coords,
                               dims   |-> dims ]
    /\ UNCHANGED <<notebook, predictorOthers, all_datasets, cpI, combined_values,
                   combined_bands, x_coords, y_coords, dims>>

----------------------------------------------------------------------------
(* predict_frogs: the probability of a frog for every pixel                *)

\* np.nan, as a number no pixel otherwise holds
NaN == -1

\* the axes of the images given to predict_frogs: those of ImageAxes and an
\* oblong one
PredictAxes == ImageAxes \cup { [x |-> <<0, 2, 4>>, y |-> <<2, 0>>] }

\* the predictor images: nBands bands over the axes a, every pixel holding a
\* number of its own, but for the pixels of hole (band, row, column), which
\* hold NaN
PredictorImage(a, nBands, hole) ==
    [ x      |-> a.x,
      y      |-> a.y,
      values |-> [b \in 1..nBands |->
                     [yi \in 1..Len(a.y) |->
                         [xi \in 1..Len(a.x) |->
                             IF <<b, yi, xi>> \in hole THEN NaN
                                                       ELSE PixelValue(b, yi, xi)]]] ]

\* .stack(z=("x", "y")): the multi-index z, x outermost
StackIndex(image) ==
    [k \in 1..(Len(image.x) * Len(image.y)) |->
        << image.x[((k - 1) \div Len(image.y)) + 1],
           image.y[((k - 1) % Len(image.y)) + 1] >>]

StackRows_moved(image) ==
    [k \in 1..(Len(image.x) * Len(image.y)) |->
        [b \in 1..Len(image.values) |->
            image.values[b][((k - 1) \div Len(image.x)) + 1]
                           [((k - 1) % Len(image.x)) + 1]]]

\* .stack(z=("x", "y")).transpose(): one row per z, one column per band
StackRows(image) ==
    [k \in 1..(Len(image.x) * Len(image.y)) |->
        [b \in 1..Len(image.values) |->
            image.values[b][((k - 1) % Len(image.y)) + 1]
                           [((k - 1) \div Len(image.y)) + 1]]]

RECURSIVE WeightedSum(_, _)
WeightedSum(row, b) == IF b = 0 THEN 0 ELSE WeightedSum(row, b - 1) + b * row[b]

\* model.predict_proba of one row: the probabilities of class 0 and of
\* class 1, in percent
PredictProba(row) ==
    LET p == (7 * WeightedSum(row, Len(row)) + 3) % 101
    IN  << 100 - p, p >>

\* predict_proba refuses input that contains NaN
InputHasNaN(rows) == \E k \in 1..Len(rows) : \E b \in 1..Len(rows[k]) : rows[k][b] = NaN

\* probabilities[:,1]
FrogProbability(probs) == probs[2]

\* the different elements of a sequence, in the order of their first
\* occurrence: the levels of one component of the multi-index
RECURSIVE FirstSeen(_)
FirstSeen(seq) ==
    IF seq = <<>> THEN <<>>
    ELSE LET init == FirstSeen(SubSeq(seq, 1, Len(seq) - 1))
             last == seq[Len(seq)]
         IN  IF \E k \in 1..Len(init) : init[k] = last THEN init
                                                       ELSE Append(init, last)

\* .unstack(): dimensions (x, y); the value at (x, y) is the entry of data
\* whose z is (x, y)
Unstack(z, data) ==
    LET xs == FirstSeen([k \in 1..Len(z) |-> z[k][1]])
        ys == FirstSeen([k \in 1..Len(z) |-> z[k][2]])
    IN  [ x      |-> xs,
          y      |-> ys,
          values |-> [i \in 1..Len(xs) |->
                         [j \in 1..Len(ys) |->
                             data[CHOOSE k \in 1..Len(z) : z[k] = <<xs[i], ys[j]>>]]] ]

NoPredictorImage == [x |-> <<>>, y |-> <<>>, values |-> <<>>]

NoStack == [z |-> <<>>, rows |-> <<>>]

PredictIdle ==
    /\ pfImage = NoPredictorImage
    /\ stacked = NoStack
    /\ probabilities = <<>>
    /\ resultant_image = NoPredictorImage
    /\ pfPc = "idle"

\* predict_frogs(predictor_image, full_model) is called
PredictStart ==
    /\ \E a \in PredictAxes : \E nb \in 1..MaxBands :
       \E hole \in {{}} \cup {{<<b, yi, xi>>} : b \in 1..nb, yi \in 1..Len(a.y),
                                                xi \in 1..Len(a.x)} :
          pfImage = PredictorImage(a, nb, hole)
    /\ stacked = NoStack
    /\ probabilities = <<>>
    /\ resultant_image = NoPredictorImage
    /\ pfPc = "stack"

\* predictor_image = predictor_image.stack(z=("x", "y")).transpose()
Stack ==
    /\ notebook = "predict"
    /\ pfPc = "stack"
    /\ stacked' = [z |-> StackIndex(pfImage), rows |-> StackRows(pfImage)]
    /\ pfPc' = "predict"
    /\ UNCHANGED <<notebook, predictOthers, pfImage, probabilities, resultant_image>>

\* probabilities = model.predict_proba(predictor_image)
Predict ==
    /\ notebook = "predict"
    /\ pfPc = "predict"
    /\ IF InputHasNaN(stacked.rows)
          THEN /\ pfPc' = "raised"
               /\ probabilities' = probabilities
          ELSE /\ pfPc' = "column"
               /\ probabilities' =
                     [k \in 1..Len(stacked.rows) |-> PredictProba(stacked.rows[k])]
    /\ UNCHANGED <<notebook, predictOthers, pfImage, stacked, resultant_image>>

\* probabilities = probabilities[:,1]
TakeColumn ==
    /\ notebook = "predict"
    /\ pfPc = "column"
    /\ probabilities' =
          [k \in 1..Len(probabilities) |-> FrogProbability(probabilities[k])]
    /\ pfPc' = "unstack"
    /\ UNCHANGED <<notebook, predictOthers, pfImage, stacked, resultant_image>>

\* resultant_image = xr.DataArray(data=probabilities, dims=['z'],
\* coords=dict(z=predictor_image.z)).unstack(); return resultant_image
UnstackImage ==
    /\ notebook = "predict"
    /\ pfPc = "unstack"
    /\ resultant_image' = Unstack(stacked.z, probabilities)
    /\ pfPc' = "done"
    /\ UNCHANGED <<notebook, predictOthers, pfImage, stacked, probabilities>>

----------------------------------------------------------------------------
(* dataset_summary: the cell that unzips the training data                 *)

\* the members of GBIF_training_data.zip, in archive order
ZipMembers == <<"occurrence.txt", "citations.txt", "rights.txt">>

Exists_never(present) == FALSE

\* os.path.exists(data_path+'training_data/')
Exists(present) == present

UnzipEntry(op) == [run |-> uzRuns, op |-> op, files |-> dirFiles]

UnzipIdle ==
    /\ zipPresent = FALSE
    /\ dirExists = FALSE
    /\ dirFiles = {}
    /\ uzRuns = 0
    /\ uzNext = 0
    /\ uzLog = <<>>
    /\ uzPc = "idle"

\* a fresh checkout: no training_data/, the archive downloaded or not yet
UnzipStart ==
    /\ zipPresent \in BOOLEAN
    /\ dirExists = FALSE
    /\ dirFiles = {}
    /\ uzRuns = 0
    /\ uzNext = 0
    /\ uzLog = <<>>
    /\ uzPc = "ready"

\* the archive is put into data_path between two runs
ZipArrives ==
    /\ notebook = "unzip"
    /\ uzPc \in {"ready", "completed", "raised"}
    /\ ~zipPresent
    /\ zipPresent' = TRUE
    /\ UNCHANGED <<notebook, unzipOthers, dirExists, dirFiles, uzRuns, uzNext, uzLog, uzPc>>

\* after a run that raised, the half-made training_data/ is removed by hand
RemoveDir ==
    /\ notebook = "unzip"
    /\ uzPc = "raised"
    /\ dirExists
    /\ dirExists' = FALSE
    /\ dirFiles' = {}
    /\ UNCHANGED <<notebook, unzipOthers, zipPresent, uzRuns, uzNext, uzLog, uzPc>>

\* the cell is run: if not os.path.exists(data_path+'training_data/'):
RunCell ==
    /\ notebook = "unzip"
    /\ uzPc \in {"ready", "completed", "raised"}
    /\ uzRuns < MaxRuns
    /\ uzRuns' = uzRuns + 1
    /\ uzNext' = 0
    /\ IF Exists(dirExists)
          THEN /\ uzPc' = "completed"
               /\ uzLog' = Append(uzLog, [run |-> uzRuns', op |-> "completed",
                                          files |-> dirFiles])
          ELSE /\ uzPc' = "mkdir"
               /\ uzLog' = uzLog
    /\ UNCHANGED <<notebook, unzipOthers, zipPresent, dirExists, dirFiles>>

\* os.mkdir(data_path+'/training_data/'); raises if the directory exists
Mkdir ==
    /\ notebook = "unzip"
    /\ uzPc = "mkdir"
    /\ uzLog' = Append(uzLog, UnzipEntry("mkdir"))
    /\ IF dirExists
          THEN /\ uzPc' = "raised"
               /\ dirExists' = dirExists
          ELSE /\ uzPc' = "open"
               /\ dirExists' = TRUE
    /\ UNCHANGED <<notebook, unzipOthers, zipPresent, dirFiles, uzRuns, uzNext>>

\* with zipfile.ZipFile(data_path+'GBIF_training_data.zip', 'r') as zip_ref:
\* raises if the archive is not there
OpenZip ==
    /\ notebook = "unzip"
    /\ uzPc = "open"
    /\ uzLog' = Append(uzLog, UnzipEntry("open"))
    /\ uzPc' = IF zipPresent THEN "extract" ELSE "raised"
    /\ uzNext' = IF zipPresent THEN 1 ELSE uzNext
    /\ UNCHANGED <<notebook, unzipOthers, zipPresent, dirExists, dirFiles, uzRuns>>

\* zip_ref.extractall(data_path+'/training_data/'): the next member is written
ExtractMember ==
    /\ notebook = "unzip"
    /\ uzPc = "extract"
    /\ dirFiles' = dirFiles \cup {ZipMembers[uzNext]}
    /\ LET written == [run |-> uzRuns, op |-> "extract", files |-> dirFiles']
       IN  IF uzNext = Len(ZipMembers)
              THEN /\ uzPc' = "completed"
                   /\ uzNext' = uzNext
                   /\ uzLog' = uzLog \o << written, [written EXCEPT !.op = "completed"] >>
              ELSE /\ uzPc' = uzPc
                   /\ uzNext' = uzNext + 1
                   /\ uzLog' = Append(uzLog, written)
    /\ UNCHANGED <<notebook, unzipOthers, zipPresent, dirExists, uzRuns>>

\* extractall raises before it has written every member (the disk is full,
\* the kernel is interrupted)
ExtractFail ==
    /\ notebook = "unzip"
    /\ uzPc = "extract"
    /\ uzLog' = Append(uzLog, UnzipEntry("raised"))
    /\ uzPc' = "raised"
    /\ UNCHANGED <<notebook, unzipOthers, zipPresent, dirExists, dirFiles, uzRuns, uzNext>>

----------------------------------------------------------------------------
(* Out-of-sample evaluation: stratified k-fold cross-validation            *)

\* n_folds = 10
n_folds == 10

\* the rows, as positions from 0 (the frame has the default index, so that
\* X.loc[...] and y[...] take the rows at these positions)
RowPositions == 0..(Len(y) - 1)

\* the predictor of the row at position r
Feature(r) == (r * r) % 3

\* StratifiedKFold encodes the classes in the order they first appear in y
ClassCode(r) == IF y[r + 1] = y[1] THEN 0 ELSE 1

ClassSize(code) == Cardinality({r \in RowPositions : ClassCode(r) = code})

\* allocation[i, code]: the rows of the class that fold i tests, found by
\* dealing the sorted codes out to the folds in turn
Allocation(i, code) ==
    Cardinality({q \in RowPositions :
                    /\ q % n_folds = i
                    /\ (q < ClassSize(0)) <=> (code = 0)})

RECURSIVE Repeat(_, _)
Repeat(v, n) == IF n = 0 THEN <<>> ELSE <<v>> \o Repeat(v, n - 1)

\* folds_for_class = np.arange(n_splits).repeat(allocation[:, k])
RECURSIVE FoldsForClass(_, _)
FoldsForClass(i, code) ==
    IF i = n_folds THEN <<>>
    ELSE Repeat(i, Allocation(i, code)) \o FoldsForClass(i + 1, code)

Reverse(seq) == [k \in 1..Len(seq) |-> seq[Len(seq) + 1 - k]]

Rotate(seq) == IF seq = <<>> THEN seq ELSE Append(Tail(seq), Head(seq))

\* rng.shuffle(folds_for_class): the orders the model lets the shuffle give
Shuffles(seq) == {seq, Reverse(seq), Rotate(seq)}

\* the rows of a class, in row order
RowsOfClass(code) ==
    SelectSeq([k \in 1..Len(y) |-> k - 1], LAMBDA r : ClassCode(r) = code)

\* test_folds[y_encoded == k] = folds_for_class
AssignFolds(folds0, folds1) ==
    [k \in 1..Len(y) |->
        LET code == ClassCode(k - 1)
            j == CHOOSE m \in 1..Len(RowsOfClass(code)) : RowsOfClass(code)[m] = k - 1
        IN  IF code = 0 THEN folds0[j] ELSE folds1[j]]

\* split raises when there are fewer rows than folds, or when no class has
\* as many rows as there are folds
SplitRaises ==
    \/ n_folds > Len(y)
    \/ \A code \in {0, 1} : ClassSize(code) > 0 => n_folds > ClassSize(code)

TestRows_upto(i) == {r \in RowPositions : test_folds[r + 1] <= i}

\* test_index of pass i: the rows whose fold is i
TestRows(i) == {r \in RowPositions : test_folds[r + 1] = i}

\* train_index of pass i: the other rows
TrainRows(i) == RowPositions \ TestRows(i)

\* cv_model.fit(X_train, y_train); cv_model.predict(X_test) for one row: the
\* class most training rows with the row's predictor have
PredictRow(train, r) ==
    LET alike == {t \in train : Feature(t) = Feature(r)}
        frogsAlike == {t \in alike : y[t + 1] = 1}
    IN  IF 2 * Cardinality(frogsAlike) >= Cardinality(alike) THEN 1 ELSE 0

\* fit raises when y_train holds one class only
FitRaises(train) == \A a, b \in train : y[a + 1] = y[b + 1]

\* f1_score(y_test, predictions), as << 2 tp, 2 tp + fp + fn >>
F1Score(train, test) ==
    LET tp == Cardinality({r \in test : y[r + 1] = 1 /\ PredictRow(train, r) = 1})
        fp == Cardinality({r \in test : y[r + 1] = 0 /\ PredictRow(train, r) = 1})
        fn == Cardinality({r \in test : y[r + 1] = 1 /\ PredictRow(train, r) = 0})
    IN  << 2 * tp, 2 * tp + fp + fn >>

\* accuracy_score(y_test, predictions), as << correct, all >>
AccuracyScore(train, test) ==
    << Cardinality({r \in test : y[r + 1] = PredictRow(train, r)}), Cardinality(test) >>

NoResults == [F1 |-> <<>>, Accuracy |-> <<>>]

KfoldIdle ==
    /\ y = <<>>
    /\ test_folds = <<>>
    /\ kfI = 0
    /\ train_index = {}
    /\ test_index = {}
    /\ results = NoResults
    /\ kfTests = <<>>
    /\ kfPc = "idle"

\* y = model_data.occurrenceStatus, of the rows of richmond_frogs.csv: the
\* frogs first, then as many non-frogs;
\* results = {'F1': [], 'Accuracy': []}
KfoldStart ==
    /\ \E m \in (n_folds - 1)..MaxPerClass :
          y = [k \in 1..(2 * m) |-> IF k <= m THEN 1 ELSE 0]
    /\ test_folds = <<>>
    /\ kfI = 0
    /\ train_index = {}
    /\ test_index = {}
    /\ results = NoResults
    /\ kfTests = <<>>
    /\ kfPc = "split"

\* skf.split(X, y) is entered: the rows are dealt out to the folds
MakeTestFolds ==
    /\ notebook = "kfold"
    /\ kfPc = "split"
    /\ IF SplitRaises
          THEN /\ kfPc' = "raised"
               /\ test_folds' = test_folds
          ELSE /\ kfPc' = "loop"
               /\ \E folds0 \in Shuffles(FoldsForClass(0, 0)) :
                  \E folds1 \in Shuffles(FoldsForClass(0, 1)) :
                     test_folds' = AssignFolds(folds0, folds1)
    /\ UNCHANGED <<notebook, kfoldOthers, y, kfI, train_index, test_index, results,
                   kfTests>>

\* results[metric].append(...)
ResultsAppend(list, score) == Append(list, score)

\* one pass of "for i, (train_index, test_index) in enumerate(skf.split(X, y))"
FoldPass ==
    /\ notebook = "kfold"
    /\ kfPc = "loop"
    /\ kfI < n_folds
    /\ train_index' = TrainRows(kfI)
    /\ test_index' = TestRows(kfI)
    /\ kfTests' = Append(kfTests, test_index')
    /\ IF FitRaises(train_index')
          THEN /\ kfPc' = "raised"
               /\ UNCHANGED <<kfI, results>>
          ELSE /\ results' =
                     [ F1 |-> ResultsAppend(results.F1,
                                            F1Score(train_index', test_index')),
                       Accuracy |-> ResultsAppend(results.Accuracy,
                                                  AccuracyScore(train_index', test_index')) ]
               /\ kfI' = kfI + 1
               /\ kfPc' = kfPc
    /\ UNCHANGED <<notebook, kfoldOthers, y, test_folds>>

\* split is exhausted: print(f'Metrics averaged over {n_folds} trials:')
KfoldEnd ==
    /\ notebook = "kfold"
    /\ kfPc = "loop"
    /\ kfI = n_folds
    /\ kfPc' = "done"
    /\ UNCHANGED <<notebook, kfoldOthers, y, test_folds, kfI, train_index,
                   test_index, results, kfTests>>

----------------------------------------------------------------------------
(* get_pc: the median mosaic of a product                                  *)

\* what a pixel of a scene may hold: NaN where the scene does not cover the
\* pixel, 0 (the no-data value of Sentinel-2), and two other values
SceneValues == {NaN, 0, 2, 6}

\* the values of a second pixel, made from those of the first so that the
\* two pixels differ in every scene but one that holds 2 or NaN
OtherPixel(v) == IF v = 0 THEN 6 ELSE IF v = 6 THEN 0 ELSE v

\* the scenes of the catalog over two pixels, the first pixel holding the
\* series s
Scenes(s) == [t \in 1..Len(s) |-> << s[t], OtherPixel(s[Len(s) + 1 - t]) >>]

\* the products the notebooks ask for, and the na_val they may pass
ProductsOf(nb) ==
    IF nb = "getpc_billy" THEN {"terraclimate", "cop-dem-glo-30", "io-lulc"}
    ELSE IF nb = "getpc_brian" THEN {"jrc-gsw", "sentinel-2-l2a"}
    ELSE {"sentinel-2-l2a"}

NaVals(nb) ==
    IF nb = "getpc_s2" THEN { [given |-> FALSE, val |-> 0] }
    ELSE { [given |-> FALSE, val |-> 0], [given |-> TRUE, val |-> 0],
           [given |-> TRUE, val |-> 6] }

\* if product == 'terraclimate': ... return parsed_data.compute()
\* (in the get_pc of Billy_Model only)
ReturnsSeries == notebook = "getpc_billy" /\ product = "terraclimate"

Where_keep(x, na) == x

\* data.where(lambda x: x != na_val, other=np.nan), for one value
Where(x, na) == IF x # NaN /\ x # na THEN x ELSE NaN

\* .where(lambda x: x > 0, other=np.nan), for one value
WherePositive(x) == IF x # NaN /\ x > 0 THEN x ELSE NaN

\* seq with v put in before the first larger element (seq ascending)
RECURSIVE Insert(_, _)
Insert(seq, v) ==
    IF seq = <<>> THEN <<v>>
    ELSE IF v <= Head(seq) THEN <<v>> \o seq
    ELSE <<Head(seq)>> \o Insert(Tail(seq), v)

RECURSIVE SortAscending(_)
SortAscending(seq) ==
    IF seq = <<>> THEN <<>> ELSE Insert(SortAscending(Tail(seq)), Head(seq))

\* .median(dim="time", skipna=True) of the values of one pixel: the NaNs
\* are left out; of an even number of values, the mean of the middle two
\* (whole for the values of SceneValues); NaN if nothing is left
MedianSkipNa(values) ==
    LET sorted == SortAscending(SelectSeq(values, LAMBDA v : v # NaN))
        n == Len(sorted)
    IN  IF n = 0 THEN NaN
        ELSE IF n % 2 = 1 THEN sorted[(n + 1) \div 2]
        ELSE (sorted[n \div 2] + sorted[(n \div 2) + 1]) \div 2

NoNaVal == [given |-> FALSE, val |-> 0]

MosaicIdle ==
    /\ product = "none"
    /\ na_val = NoNaVal
    /\ gpScenes = <<>>
    /\ gpData = <<>>
    /\ median = <<>>
    /\ gpSeries = <<>>
    /\ gpPc = "idle"

\* get_pc(product, bbox, **params) is called, or the Sentinel-2 cells are run
MosaicStart ==
    /\ product \in ProductsOf(notebook)
    /\ na_val \in NaVals(notebook)
    /\ \E T \in 1..MaxScenes : \E s \in [1..T -> SceneValues] : gpScenes = Scenes(s)
    /\ gpData = <<>>
    /\ median = <<>>
    /\ gpSeries = <<>>
    /\ gpPc = "fetch"

\* Handle terraclimate differently: data = xr.open_zarr(...); ...;
\* return parsed_data.compute()
FetchTerraclimate ==
    /\ gpPc = "fetch"
    /\ ReturnsSeries
    /\ gpSeries' = gpScenes
    /\ gpPc' = "done"
    /\ UNCHANGED <<notebook, mosaicOthers, product, na_val, gpScenes, gpData, median>>

\* items = list(search.get_items()); ...; data = stackstac.stack(...)
StackItems ==
    /\ gpPc = "fetch"
    /\ notebook \in {"getpc_billy", "getpc_brian", "getpc_s2"}
    /\ ~ReturnsSeries
    /\ gpData' = gpScenes
    /\ gpPc' = "mask"
    /\ UNCHANGED <<notebook, mosaicOthers, product, na_val, gpScenes, median, gpSeries>>

\* if na_val is not None: data = data.where(...)   (get_pc)
\* .where(lambda x: x > 0, other=np.nan)            (Sentinel-2)
MaskNoData ==
    /\ gpPc = "mask"
    /\ gpData' =
          IF notebook = "getpc_s2"
             THEN [t \in 1..Len(gpData) |->
                     [p \in 1..Len(gpData[t]) |-> WherePositive(gpData[t][p])]]
          ELSE IF na_val.given
             THEN [t \in 1..Len(gpData) |->
                     [p \in 1..Len(gpData[t]) |-> Where(gpData[t][p], na_val.val)]]
          ELSE gpData
    /\ gpPc' = "median"
    /\ UNCHANGED <<notebook, mosaicOthers, product, na_val, gpScenes, median, gpSeries>>

\* median = data.median(dim="time", skipna=True).compute(); return median
MedianComposite ==
    /\ gpPc = "median"
    /\ median' = [p \in 1..Len(gpData[1]) |->
                     MedianSkipNa([t \in 1..Len(gpData) |-> gpData[t][p]])]
    /\ gpPc' = "done"
    /\ UNCHANGED <<notebook, mosaicOthers, product, na_val, gpScenes, gpData, gpSeries>>

----------------------------------------------------------------------------
(* Specifications *)

\* the notebooks that are not run
ModelIdle == PredictorIdle /\ PredictIdle /\ UnzipIdle /\ KfoldIdle /\ MosaicIdle

OthersIdle == AbsenceIdle /\ JoinIdle /\ TiffIdle /\ ModelIdle

GatherIdle == PagingIdle /\ PartitionIdle /\ AbsenceIdle /\ JoinIdle /\ TiffIdle

InitPredictor == notebook = "predictor" /\ PredictorStart /\ GatherIdle /\ PredictIdle
                    /\ UnzipIdle /\ KfoldIdle /\ MosaicIdle

InitPredict == notebook = "predict" /\ PredictStart /\ GatherIdle /\ PredictorIdle
                  /\ UnzipIdle /\ KfoldIdle /\ MosaicIdle

InitUnzip == notebook = "unzip" /\ UnzipStart /\ GatherIdle /\ PredictorIdle
                /\ PredictIdle /\ KfoldIdle /\ MosaicIdle

InitKfold == notebook = "kfold" /\ KfoldStart /\ GatherIdle /\ PredictorIdle
                /\ PredictIdle /\ UnzipIdle /\ MosaicIdle

InitMosaic ==
    /\ notebook \in {"getpc_billy", "getpc_brian", "getpc_s2"}
    /\ MosaicStart
    /\ GatherIdle /\ PredictorIdle /\ PredictIdle /\ UnzipIdle /\ KfoldIdle

NextMosaic == FetchTerraclimate \/ StackItems \/ MaskNoData \/ MedianComposite

SpecMosaic == InitMosaic /\ [][NextMosaic]_vars

NextKfold == MakeTestFolds \/ FoldPass \/ KfoldEnd

SpecKfold == InitKfold /\ [][NextKfold]_vars

NextUnzip == ZipArrives \/ RemoveDir \/ RunCell \/ Mkdir \/ OpenZip \/ ExtractMember \/ ExtractFail

SpecUnzip == InitUnzip /\ [][NextUnzip]_vars

NextPredict == Stack \/ Predict \/ TakeColumn \/ UnstackImage

SpecPredict == InitPredict /\ [][NextPredict]_vars

NextPredictor == CombineDataset \/ CombineLoopEnd \/ BuildImage

SpecPredictor == InitPredictor /\ [][NextPredictor]_vars

InitPaging == notebook = "paging" /\ PagingStart /\ PartitionIdle /\ OthersIdle

InitPartition == notebook = "partition" /\ PartitionStart /\ PagingIdle /\ OthersIdle

InitAbsence == notebook = "absence" /\ AbsenceStart /\ PagingIdle /\ PartitionIdle
                  /\ JoinIdle /\ TiffIdle /\ ModelIdle

InitJoin == notebook = "join" /\ JoinStart /\ PagingIdle /\ PartitionIdle
               /\ AbsenceIdle /\ TiffIdle /\ ModelIdle

NextJoin == JoinPoint \/ JoinLoopEnd \/ Merge

SpecJoin == InitJoin /\ [][NextJoin]_vars

InitTiff ==
    /\ PagingIdle /\ PartitionIdle /\ AbsenceIdle /\ JoinIdle /\ ModelIdle
    /\ \/ notebook = "sentinel2" /\ Sentinel2Start
       \/ notebook = "dem" /\ DemStart
       \/ notebook = "jrc" /\ JrcStart

NextTiff == WriteBand \/ JrcWriteAll \/ JrcWriteBand

SpecTiff == InitTiff /\ [][NextTiff]_vars

NextAbsence == GridUnit \/ Sample \/ Concat

SpecAbsence == InitAbsence /\ [][NextAbsence]_vars

NextPartition ==
    \/ Expire \/ PartSkip \/ PartTake \/ PartLoopEnd
    \/ ComputeRequest \/ ComputeOk \/ ComputeFail
    \/ ResignOk \/ ResignFail \/ Save

SpecPartition == InitPartition /\ [][NextPartition]_vars

NextPaging == PagingRequest \/ PagingResponse

SpecPaging == InitPaging /\ [][NextPaging]_vars

\* every request returns a response, and the kernel keeps executing the loop
FairPaging ==
    InitPaging /\ [][NextPaging]_vars
        /\ WF_vars(PagingRequest) /\ WF_vars(PagingResponse)

\* both loops that talk to a remote service
SpecRemote == (InitPaging \/ InitPartition) /\ [][NextPaging \/ NextPartition]_vars

----------------------------------------------------------------------------
(* Claims about the paging loop *)

\* C1: when the paging loop has ended, the accumulated frame holds every one
\* of the server's records exactly once, in server order.
C1_AllRecordsOnce ==
    pgPc = "done" =>
        /\ Len(frogs) = total
        /\ \A k \in 1..Len(frogs) : frogs[k] = k - 1

\* a run of three pages has ended
C1_Witness == pgPc = "done" /\ total > 2 * limit /\ Len(frogs) > 2 * limit

C3_PagingTerminates == <>(pgPc = "done")

\* the loop has ended for the largest count of the model
C3_Witness == pgPc = "done" /\ total = MaxRecords /\ inflight = <<>>

----------------------------------------------------------------------------
(* Claims about the partition extraction loop *)

IsRetryOk(e) == e.op = "retry" /\ e.ok

Count(x, seq) == Cardinality({k \in 1..Len(seq) : seq[k] = x})

\* C4: a selected partition whose compute fails is re-signed and retried; on a
\* successful retry its rows are in frogs exactly once, the retry and all
\* later computes use the re-signed frame on later partitions, and the run is
\* not aborted by that failure.
C4_RetryAfterResign ==
    \A k \in 1..Len(ptLog) :
        IsRetryOk(ptLog[k]) =>
            /\ k >= 3
            /\ ptLog[k-1].op = "resign" /\ ptLog[k-1].ok
            /\ ptLog[k-1].part = ptLog[k].part
            /\ ptLog[k-1].gen = ptLog[k].gen
            /\ ptLog[k-2].op = "try" /\ ~ptLog[k-2].ok
            /\ ptLog[k-2].part = ptLog[k].part
            /\ ptLog[k-2].gen < ptLog[k].gen
            /\ Count(ptLog[k].part, ptFrogs) = 1
            /\ part > ptLog[k].part
            /\ \A m \in (k+1)..Len(ptLog) :
                  /\ ptLog[m].part > ptLog[k].part
                  /\ ptLog[m].gen >= ptLog[k].gen
            /\ (k = Len(ptLog) => ptPc \in {"loop", "try", "save", "saved"})
            /\ (ptPc = "saved" => csv = ptFrogs)

\* the first partition was retried with success after an expiry, a later
\* partition was computed from the re-signed frame, and the file was saved
C4_Witness ==
    /\ ptPc = "saved"
    /\ Len(ptLog) >= 4
    /\ ptLog[1].why = "expired"
    /\ IsRetryOk(ptLog[3])
    /\ ptLog[4].op = "try" /\ ptLog[4].ok /\ ptLog[4].gen = 1
    /\ Len(csv) = 2

\* C9: at most one remote request is outstanding at any time, and every
\* request but the outstanding one has had its response consumed: in the
\* paging loop the pages of the earlier requests are in frogs, in the
\* partition loop the earlier computes have all returned or raised.
C9_OneRequestAtATime ==
    /\ Len(inflight) <= 1
    /\ notebook = "paging" =>
          Len(frogs) = Min(total, limit * (requests - Len(inflight)))
    /\ notebook = "partition" =>
          Cardinality({k \in 1..Len(ptLog) : ptLog[k].op # "resign"})
              = requests - Len(inflight)

\* a second request is outstanding and the first page is in frogs
C9_Witness ==
    /\ notebook = "paging"
    /\ Len(inflight) = 1
    /\ requests = 2
    /\ Len(frogs) = limit

----------------------------------------------------------------------------
(* Claims about the frog-absence sampler *)

\* the bottom corner of grid cell (a, b) of the bounding box
CellCorner(a, b) == << bbox[1] + a * step[1], bbox[2] + b * step[2] >>

\* C5: once the nested loop has ended, each of the grid[0] x grid[1] grid
\* cells of the bounding box has been examined exactly once.
C5_EachCellOnce ==
    abPc \in {"sample", "concat", "done", "raised"} =>
        \A a \in 0..(grid[1] - 1) : \A b \in 0..(grid[2] - 1) :
            Count(CellCorner(a, b), examined) = 1

\* point <<lon, lat>> lies in the grid unit with bottom corner c
InUnit(lon, lat, c) ==
    /\ c[1] <= lon /\ lon <= c[1] + step[1]
    /\ c[2] <= lat /\ lat <= c[2] + step[2]

NoFrogIn(c) ==
    \A k \in 1..Len(geo_frogs) : ~InUnit(geo_frogs[k][1], geo_frogs[k][2], c)

\* C6: the absence points saved are, in order, one for each examined region
\* that no frog intersects and none for the others; each is the midpoint of
\* its region, and none lies in an examined region that contains a frog.
C6_AbsentIffNoFrog ==
    abPc \in {"grid", "sample"} =>
        LET saved == SelectSeq(examined, NoFrogIn)
        IN  /\ Len(non_frogs) = Len(saved)
            /\ \A k \in 1..Len(non_frogs) :
                  /\ 2 * non_frogs[k].decimalLongitude = 2 * saved[k][1] + step[1]
                  /\ 2 * non_frogs[k].decimalLatitude = 2 * saved[k][2] + step[2]
                  /\ \A m \in 1..Len(examined) :
                        ~NoFrogIn(examined[m]) =>
                            ~InUnit(non_frogs[k].decimalLongitude,
                                    non_frogs[k].decimalLatitude, examined[m])

\* the window is done; some regions gave an absence point and some held frogs
C6_Witness ==
    /\ abPc = "sample"
    /\ Len(non_frogs) >= 1
    /\ Len(non_frogs) < Len(examined)
    /\ \E m \in 1..Len(examined) : ~NoFrogIn(examined[m])

Rows(status) == Cardinality({k \in 1..Len(all_data) : all_data[k].occurrenceStatus = status})

\* C7 as stated: for any number of frogs and of empty grid cells the run ends
\* with a final dataset holding as many '0' rows as '1' rows.
C7_BalancedAlways ==
    abPc \in {"done", "raised"} =>
        /\ abPc = "done"
        /\ Rows("0") = Rows("1")

\* C7 amended: when at least as many absence points were saved as there are
\* frogs, all_data holds as many '0' rows as '1' rows (one per frog);
\* otherwise sample raises and no final dataset is built.
C7_BalancedWhenEnough ==
    /\ abPc = "done" =>
          /\ Rows("1") = Len(geo_frogs)
          /\ Rows("0") = Rows("1")
          /\ Len(all_data) = 2 * Len(geo_frogs)
          /\ Len(SelectSeq(examined, NoFrogIn)) >= Len(geo_frogs)
    /\ abPc = "raised" =>
          /\ Len(non_frogs) < Len(geo_frogs)
          /\ all_data = <<>>

\* a final dataset of two frogs and two absence points drawn out of three
C7_Witness ==
    /\ abPc = "done"
    /\ Len(geo_frogs) = 2
    /\ Len(SelectSeq(examined, NoFrogIn)) = 3
    /\ Rows("0") = 2

----------------------------------------------------------------------------
(* Claims about join_features and the GeoTIFF writes *)

\* no coordinate of the axis is closer to t than coords[k]
IsNearest(coords, k, t) ==
    \A m \in 1..Len(coords) : Abs(coords[k] - t) <= Abs(coords[m] - t)

\* C8: join_features returns exactly one row per input occurrence, with the
\* same keys, and the band columns of the row with key k hold the values of
\* the pixel whose x is nearest to the occurrence's longitude and whose y is
\* nearest to its latitude.
C8_NearestPixelPerRow ==
    jfPc \in {"done", "raised"} =>
        /\ jfPc = "done"
        /\ Len(joined) = Len(model_data)
        /\ \A k \in 1..Len(joined) :
              /\ joined[k].key = model_data[k].key
              /\ Len(joined[k].values) = Len(predictor_image.bands)
              /\ \E xi \in 1..Len(predictor_image.x) :
                 \E yi \in 1..Len(predictor_image.y) :
                    /\ IsNearest(predictor_image.x, xi, model_data[k].decimalLongitude)
                    /\ IsNearest(predictor_image.y, yi, model_data[k].decimalLatitude)
                    /\ \A b \in 1..Len(predictor_image.bands) :
                          joined[k].values[b] = PixelValue(b, yi, xi)

\* C8 holds of the images that have more than one band, joined onto a frame
\* with at least one occurrence
C8_NearestPixelManyBands ==
    (Len(predictor_image.bands) > 1 /\ model_data # <<>>) => C8_NearestPixelPerRow

----------------------------------------------------------------------------
(* Claims about create_predictor_image and predict_frogs *)

\* the datasets of the list all lie on the grid of the first
SameGrid ==
    \A i \in 1..Len(all_datasets) :
        /\ all_datasets[i].x = all_datasets[1].x
        /\ all_datasets[i].y = all_datasets[1].y

\* the number of bands of the first i datasets of the list
RECURSIVE BandsBefore(_)
BandsBefore(i) == IF i = 0 THEN 0 ELSE BandsBefore(i - 1) + Len(all_datasets[i].band)

\* C11: for a non-empty list of datasets on the same grid, the call returns
\* an image on that grid with sum(k_i) bands whose labels are the datasets'
\* labels in list order, and band k_1+..+k_(i-1)+b of the image holds the
\* values of band b of dataset i.
C11_BandsConcatenated ==
    (cpPc \in {"done", "raised"} /\ all_datasets # <<>> /\ SameGrid) =>
        /\ cpPc = "done"
        /\ Len(cpImage.band) = BandsBefore(Len(all_datasets))
        /\ Len(cpImage.values) = BandsBefore(Len(all_datasets))
        /\ cpImage.x = all_datasets[1].x
        /\ cpImage.y = all_datasets[1].y
        /\ \A i \in 1..Len(all_datasets) :
           \A b \in 1..Len(all_datasets[i].band) :
              /\ cpImage.band[BandsBefore(i - 1) + b] = all_datasets[i].band[b]
              /\ cpImage.values[BandsBefore(i - 1) + b] = all_datasets[i].values[b]

\* three datasets of two, one and two bands on one grid were combined
C11_Witness ==
    /\ cpPc = "done"
    /\ Len(all_datasets) = 3
    /\ SameGrid
    /\ Len(all_datasets[1].band) = 2
    /\ Len(all_datasets[2].band) = 1
    /\ Len(all_datasets[3].band) = 2
    /\ Len(cpImage.band) = 5

\* C12: the image predict_frogs returns has one probability for every pair
\* of an x and a y coordinate of the predictor image and for no other pair,
\* and the value at (x, y) is the model's class-1 probability of the band
\* vector the predictor image holds at that (x, y).
C12_PixelsKept ==
    pfPc = "done" =>
        /\ {resultant_image.x[i] : i \in 1..Len(resultant_image.x)}
              = {pfImage.x[xi] : xi \in 1..Len(pfImage.x)}
        /\ {resultant_image.y[j] : j \in 1..Len(resultant_image.y)}
              = {pfImage.y[yi] : yi \in 1..Len(pfImage.y)}
        /\ Len(resultant_image.x) = Len(pfImage.x)
        /\ Len(resultant_image.y) = Len(pfImage.y)
        /\ Len(resultant_image.values) = Len(resultant_image.x)
        /\ \A i \in 1..Len(resultant_image.x) :
              /\ Len(resultant_image.values[i]) = Len(resultant_image.y)
              /\ \A j \in 1..Len(resultant_image.y) :
                 \A xi \in 1..Len(pfImage.x) : \A yi \in 1..Len(pfImage.y) :
                    (pfImage.x[xi] = resultant_image.x[i]
                        /\ pfImage.y[yi] = resultant_image.y[j]) =>
                       resultant_image.values[i][j] =
                          PredictProba([b \in 1..Len(pfImage.values) |->
                                           pfImage.values[b][yi][xi]])[2]

\* an image of two bands on the three-by-two grid was predicted
C12_Witness ==
    /\ pfPc = "done"
    /\ Len(pfImage.values) = 2
    /\ Len(pfImage.x) = 3
    /\ Len(pfImage.y) = 2
    /\ resultant_image.values[1][2] # resultant_image.values[2][1]

----------------------------------------------------------------------------
(* Claims about the unzip cell *)

\* C13: whenever a run of the unzip cell has completed, the members of the
\* archive are in training_data/, whatever earlier runs did.
C13_ExtractedAfterRun ==
    uzPc = "completed" =>
        /\ dirExists
        /\ dirFiles = {ZipMembers[k] : k \in 1..Len(ZipMembers)}

IsFsOp(e) == e.op \in {"mkdir", "open", "extract"}

\* C14: once a run has completed, no later run makes the directory or
\* extracts anything, and training_data/ keeps the contents it had when that
\* run completed.
C14_RerunDoesNothing ==
    \A k \in 1..Len(uzLog) :
        uzLog[k].op = "completed" =>
            /\ dirExists
            /\ dirFiles = uzLog[k].files
            /\ \A m \in (k + 1)..Len(uzLog) :
                  /\ ~IsFsOp(uzLog[m])
                  /\ uzLog[m].op = "completed"
                  /\ uzLog[m].files = uzLog[k].files

\* the first run extracted the archive and two more runs completed after it
C14_Witness ==
    /\ uzPc = "completed"
    /\ uzRuns = 3
    /\ Len(uzLog) = 8
    /\ uzLog[1].op = "mkdir"
    /\ uzLog[5].op = "extract"
    /\ uzLog[6].run = 1
    /\ uzLog[8].run = 3

----------------------------------------------------------------------------
(* Claims about the cross-validation cell *)

\* C15: in every pass of the loop the train and test rows are disjoint and
\* together are all rows; no row is tested in two passes; and after the
\* loop there were n_folds passes, every row was tested in exactly one, and
\* results['F1'] and results['Accuracy'] hold n_folds scores, the i-th
\* being the score of the i-th fold tested on the model fitted to the rest.
C15_EachFoldOnce ==
    /\ kfTests # <<>> =>
          /\ train_index \cap test_index = {}
          /\ train_index \cup test_index = RowPositions
          /\ test_index = kfTests[Len(kfTests)]
          /\ test_index # {}
    /\ \A i, j \in 1..Len(kfTests) : i # j => kfTests[i] \cap kfTests[j] = {}
    /\ kfPc \in {"loop", "done"} =>
          /\ Len(kfTests) = kfI
          /\ Len(results.F1) = kfI
          /\ Len(results.Accuracy) = kfI
    /\ kfPc = "done" =>
          /\ Len(kfTests) = n_folds
          /\ \A r \in RowPositions :
                Cardinality({i \in 1..n_folds : r \in kfTests[i]}) = 1
          /\ Len(results.F1) = n_folds
          /\ Len(results.Accuracy) = n_folds
          /\ \A i \in 1..n_folds :
                /\ results.F1[i] = F1Score(RowPositions \ kfTests[i], kfTests[i])
                /\ results.Accuracy[i] =
                      AccuracyScore(RowPositions \ kfTests[i], kfTests[i])

\* the loop has ended on eleven frogs and eleven non-frogs; the folds are
\* not all of one size and not all of one score
C15_Witness ==
    /\ kfPc = "done"
    /\ Len(y) = 22
    /\ \E i, j \in 1..n_folds :
          /\ Cardinality(kfTests[i]) # Cardinality(kfTests[j])
          /\ results.Accuracy[i] # results.Accuracy[j]
    /\ results.F1[1] # results.F1[n_folds]

----------------------------------------------------------------------------
(* Claims about get_pc *)

\* the scenes whose value of pixel p counts: not missing, and not the
\* no-data value where one is in force (na_val, or 0 in the Sentinel-2 cells)
KeptTimes(p) ==
    {t \in 1..Len(gpScenes) :
        /\ gpScenes[t][p] # NaN
        /\ notebook = "getpc_s2" => gpScenes[t][p] # 0
        /\ (notebook # "getpc_s2" /\ na_val.given) => gpScenes[t][p] # na_val.val}

\* v is the k-th smallest of the counted values of pixel p
IsKthSmallest(v, k, p) ==
    /\ \E t \in KeptTimes(p) : gpScenes[t][p] = v
    /\ Cardinality({t \in KeptTimes(p) : gpScenes[t][p] < v}) < k
    /\ Cardinality({t \in KeptTimes(p) : gpScenes[t][p] <= v}) >= k

\* m is the median over time of the counted values of pixel p, NaN if none
IsMedianOf(m, p) ==
    LET n == Cardinality(KeptTimes(p))
    IN  IF n = 0 THEN m = NaN
        ELSE \E lo, hi \in SceneValues :
                /\ IsKthSmallest(lo, (n + 1) \div 2, p)
                /\ IsKthSmallest(hi, (n \div 2) + 1, p)
                /\ 2 * m = lo + hi

IsMedianMosaic ==
    /\ Len(median) = Len(gpScenes[1])
    /\ \A p \in 1..Len(median) : IsMedianOf(median[p], p)

----------------------------------------------------------------------------
(* Claims about the failures of the partition extraction loop *)

IsCompute(e) == e.op \in {"try", "retry"}

\* what the loop is at once the log ends with entry e: the handler's next
\* statement, or nothing more when the handler raised
ReachedAfter(e) ==
    IF e.op = "try" /\ ~e.ok THEN ptPc = "resign"
    ELSE IF e.op = "resign" /\ e.ok THEN ptPc = "retry"
    ELSE IF ~e.ok THEN ptPc = "raised"
    ELSE TRUE

\* C17: a failed first compute of a partition, whatever made it fail, is
\* followed by one re-sign and, if that succeeds, by one retry of the same
\* partition; a partition has at most two compute attempts and one re-sign;
\* and a re-sign directly follows a failed first compute of its partition.
C17_OneResignOneRetry ==
    /\ \A k \in 1..Len(ptLog) :
          /\ (ptLog[k].op = "try" /\ ~ptLog[k].ok /\ k < Len(ptLog)) =>
                /\ ptLog[k + 1].op = "resign"
                /\ ptLog[k + 1].part = ptLog[k].part
          /\ (ptLog[k].op = "resign" /\ ptLog[k].ok /\ k < Len(ptLog)) =>
                /\ ptLog[k + 1].op = "retry"
                /\ ptLog[k + 1].part = ptLog[k].part
          /\ ptLog[k].op = "resign" =>
                /\ k > 1
                /\ ptLog[k - 1].op = "try"
                /\ ~ptLog[k - 1].ok
                /\ ptLog[k - 1].part = ptLog[k].part
          /\ ptLog[k].op = "retry" =>
                /\ k > 1
                /\ ptLog[k - 1].op = "resign"
                /\ ptLog[k - 1].ok
          /\ k = Len(ptLog) => ReachedAfter(ptLog[k])
    /\ \A q \in 0..(npartitions - 1) :
          /\ Cardinality({k \in 1..Len(ptLog) :
                             IsCompute(ptLog[k]) /\ ptLog[k].part = q}) <= 2
          /\ Cardinality({k \in 1..Len(ptLog) :
                             ptLog[k].op = "try" /\ ptLog[k].part = q}) <= 1
          /\ Cardinality({k \in 1..Len(ptLog) :
                             ptLog[k].op = "resign" /\ ptLog[k].part = q}) <= 1

\* a compute failed though the signed URL had not expired, the frame was
\* re-signed and the retry succeeded; a later partition failed on expiry and
\* was re-signed and retried as well
C17_Witness ==
    /\ Len(ptLog) = 6
    /\ ptLog[1].op = "try" /\ ptLog[1].why = "other"
    /\ ptLog[2].op = "resign" /\ ptLog[2].ok
    /\ ptLog[3].op = "retry" /\ ptLog[3].ok
    /\ ptLog[4].op = "try" /\ ptLog[4].why = "expired"
    /\ ptLog[6].op = "retry" /\ ptLog[6].gen = 2

IsHandlerFailure(e) == e.op \in {"retry", "resign"} /\ ~e.ok

\* C18: when the retry of a partition or the re-sign fails, nothing is
\* attempted after it (no compute, no re-sign, no request), the rows of
\* the failed partition are not in frogs, the save step is not executed and
\* richmond_frogs.csv is as it was before the cell ran.
C18_FailurePropagates ==
    \A k \in 1..Len(ptLog) :
        IsHandlerFailure(ptLog[k]) =>
            /\ k = Len(ptLog)
            /\ ptPc = "raised"
            /\ inflight = <<>>
            /\ part = ptLog[k].part
            /\ Count(ptLog[k].part, ptFrogs) = 0
            /\ csv = "untouched"

\* the retry of the second of three partitions failed after the first
\* partition had been appended to frogs
C18_Witness ==
    /\ ptPc = "raised"
    /\ npartitions = 3
    /\ ptFrogs = <<0>>
    /\ Len(ptLog) = 4
    /\ ptLog[4].op = "retry" /\ ~ptLog[4].ok /\ ptLog[4].part = 1
    /\ csv = "untouched"

====
